---- MODULE Spec2Model ----
(***************************************************************************)
(* Model of the embedded-threadsafe / embedded-singletons cell family and  *)
(* of its rp2040 runtime.                                                  *)
(*                                                                         *)
(* Every core owns a stack of scope activations.  The bottom activation is *)
(* thread-mode code; an interrupt handler is an activation pushed on top   *)
(* of whatever the core was doing, and it runs to completion before the    *)
(* preempted activation continues.  Each step of the top activation of a   *)
(* core is one action, so cores interleave at every step and interrupts    *)
(* preempt between any two steps while PRIMASK leaves them enabled.        *)
(***************************************************************************)
EXTENDS Naturals, Sequences, FiniteSets

\* ---------------------------------------------------------------- bounds
\* scope calls issued by the thread-mode code of one core
MaxCalls == 2
\* interrupt handlers that fire on one core
MaxIrqs == 2

\* ------------------------------------------------------------- constants
\* Sio::core(): the rp2040 has the cores 0 and 1
Cores == {0, 1}
\* the cells of the program; the callers below enter "X"
Cells == {"X", "Y"}
\* the three tiers: Shared*, Local*, Interrupt* (Cell or Singleton)
Kinds == {"Shared", "Local", "Interrupt"}
\* no panic message, no token
None == "None"
\* Option<T>: None is the empty sequence and Some(v) the sequence of v
NoneV == <<>>
Some(v) == <<v>>
Unwrap(o) == o[1]
\* the owners of the critical section when no core is inside it
NoCore == {}
\* what a Formatter holds: the opaque description of a cell, or its live value
Opaque(why) == [text |-> why, val |-> NoneV]
Live(v) == [text |-> "value", val |-> v]
NoText == [text |-> None, val |-> NoneV]

VARIABLES
    kind,        \* [Cells -> Kinds]: the tier of each cell
    lazyc,       \* [Cells -> BOOLEAN]: the cell holds a LazyCell (a singleton)
    thread_id,   \* [Cells -> Cores]: the bound context id (Local, Interrupt)
    ctor,        \* [Cells -> call]: the constructor call that built the cell
    init,        \* [Cells -> BOOLEAN]: the initializer slot is Some
    value,       \* [Cells -> Option<Nat>]: the value slot
    stack,       \* [Cores -> Seq(activation)]: the scope activations of a core
    primask,     \* [Cores -> BOOLEAN]: interrupts are active on the core
    cs_owner,    \* {the core inside critical_section::with}, or NoCore
    panic,       \* [Cores -> message]: the panic that halted the core, or None
    result,      \* [Cores -> Option<Nat>]: what the last scope call returned
    initCount,   \* [Cells -> Nat]: invocations of the initializer
    accCount,    \* [Cells -> Nat]: accessors that ran to their end
    calls,       \* [Cores -> Nat]: scope calls issued by thread-mode code
    irqs,        \* [Cores -> Nat]: interrupt handlers that fired
    fmt_out      \* [Cores -> text]: what the last Debug::fmt of the core wrote

vars == <<kind, lazyc, thread_id, ctor, init, value, stack, primask, cs_owner,
          panic, result, initCount, accCount, calls, irqs, fmt_out>>

config == <<kind, lazyc, thread_id, ctor>>

\* ------------------------------------------------------------- helpers
Top(c) == stack[c][Len(stack[c])]

Running(c) == panic[c] = None /\ stack[c] # <<>>

\* the activation a call pushes: op is "scope" for x.scope(accessor),
\* "fmt" for Debug::fmt of x and "raw" for x.raw(accessor); fn is the slot
\* `let mut scope = Some(scope)` and tmp the slot `let mut result = None`
Frame(x, isr) ==
    [cell |-> x, pc |-> "entry", isr |-> isr, tok |-> None, tmp |-> NoneV,
     op |-> "scope", fn |-> TRUE]

SetTop(c, f) == [stack EXCEPT ![c] = [@ EXCEPT ![Len(@)] = f]]

Pop(c) == [stack EXCEPT ![c] = SubSeq(@, 1, Len(@) - 1)]

\* _runtime_threadid: the index of the core
runtime_threadid(c) == c

\* _runtime_isinterrupted: SCB::vect_active() != ThreadMode
runtime_isinterrupted(c) == \E i \in DOMAIN stack[c] : stack[c][i].isr

\* ------------------------------------------------------------------ Init
\* LazyCell::new: the initializer is stored and there is no value
LazyCellNew == [i |-> TRUE, v |-> NoneV]

\* SharedCell::new, LocalCell::new_with_threadid, InterruptCell::new_with_threadid
CellNew == [i |-> FALSE, v |-> Some(0)]

New(lz) == IF lz THEN LazyCellNew ELSE CellNew

InitCommon ==
    /\ stack = [c \in Cores |-> <<>>]
    /\ primask = [c \in Cores |-> TRUE]
    /\ cs_owner = NoCore
    /\ panic = [c \in Cores |-> None]
    /\ result = [c \in Cores |-> NoneV]
    /\ initCount = [x \in Cells |-> 0]
    /\ accCount = [x \in Cells |-> 0]
    /\ calls = [c \in Cores |-> 0]
    /\ irqs = [c \in Cores |-> 0]
    /\ fmt_out = [c \in Cores |-> NoText]

\* LocalCell::new / InterruptCell::new executed by core `by` (id is None), or
\* new_with_threadid(value, id): the thread_id field the constructor stores
new(by, id) == IF id = NoneV THEN runtime_threadid(by) ELSE Unwrap(id)

\* the cells of kind k as the constructor call of core `by` leaves them
Construct(k, lz, by, id) ==
    /\ kind = [x \in Cells |-> k]
    /\ lazyc = [x \in Cells |-> lz]
    /\ ctor = [x \in Cells |-> [by |-> by, id |-> id]]
    /\ thread_id = [x \in Cells |-> new(by, id)]
    /\ init = [x \in Cells |-> New(lz).i]
    /\ value = [x \in Cells |-> New(lz).v]

\* the cells are built with new by the core they are bound to; the runs are
\* those of a cell built with new_with_threadid(value, id) on any core
Init ==
    /\ \E k \in Kinds, lz \in BOOLEAN, id \in Cores :
          /\ (k = "Shared" => id = 0)
          /\ Construct(k, lz, id, <<>>)
    /\ InitCommon

\* a cell built on either core; a Local or Interrupt cell with new or with
\* new_with_threadid and either id
InitBind ==
    /\ \E k \in Kinds, lz \in BOOLEAN, by \in Cores,
          id \in {NoneV} \cup {Some(i) : i \in Cores} :
          /\ (k = "Shared" => by = 0 /\ id = NoneV)
          /\ Construct(k, lz, by, id)
    /\ InitCommon

\* ------------------------------------------------------------- callers
\* thread-mode code of core c calls x.scope(accessor)
Call(c, x) ==
    /\ panic[c] = None
    /\ stack[c] = <<>>
    /\ calls[c] < MaxCalls
    /\ stack' = [stack EXCEPT ![c] = Append(@, Frame(x, FALSE))]
    /\ calls' = [calls EXCEPT ![c] = @ + 1]
    /\ UNCHANGED <<config, fmt_out, init, value, primask, cs_owner, panic, result,
                   initCount, accCount, irqs>>

\* an interrupt preempts core c, thread-mode code or a handler of lower
\* priority, and its handler calls x.scope(accessor); interrupts are taken
\* only while PRIMASK leaves them active
Irq(c, x) ==
    /\ panic[c] = None
    /\ primask[c]
    /\ irqs[c] < MaxIrqs
    /\ stack' = [stack EXCEPT ![c] = Append(@, Frame(x, TRUE))]
    /\ irqs' = [irqs EXCEPT ![c] = @ + 1]
    /\ UNCHANGED <<config, fmt_out, init, value, primask, cs_owner, panic, result,
                   initCount, accCount, calls>>

\* a panic halts the core where it stands: nothing unwinds
Abort(c, msg) ==
    /\ panic' = [panic EXCEPT ![c] = msg]
    /\ UNCHANGED <<config, fmt_out, init, value, stack, primask, cs_owner, result,
                   initCount, accCount, calls, irqs>>

\* the activation of core c moves on to pc with token tok
Goto(c, pc, tok) == SetTop(c, [Top(c) EXCEPT !.pc = pc, !.tok = tok])

\* the closure handed to the runtime starts with `scope.take()` and goes on
\* to raw with the accessor
Enter(c, tok) ==
    SetTop(c, [Top(c) EXCEPT !.pc = "raw", !.tok = tok, !.fn = FALSE])

\* primask::read().is_active(), as the token that restores it
Token(c) == IF primask[c] THEN "active" ELSE "inactive"

\* the activation of core c is at pc of the scope of a cell of tier k
At(c, k, pc) ==
    /\ Running(c)
    /\ Top(c).op # "raw"
    /\ kind[Top(c).cell] = k
    /\ Top(c).pc = pc

\* ---------------------------------------------------------- Shared tier
\* faulty variant: the lock is taken although the other core holds it
runtime_threadsafe_enter_steal(c) ==
    /\ At(c, "Shared", "entry")
    /\ \/ /\ cs_owner = {c}
          /\ stack' = Enter(c, "owned")
          /\ UNCHANGED <<primask, cs_owner>>
       \/ /\ cs_owner # {c}
          /\ stack' = Enter(c, Token(c))
          /\ primask' = [primask EXCEPT ![c] = FALSE]
          /\ cs_owner' = {c}
    /\ UNCHANGED <<config, fmt_out, init, value, panic, result, initCount, accCount,
                   calls, irqs>>

\* faulty variant: only the interrupts of the core are masked, no lock is taken
runtime_threadsafe_enter_nolock(c) ==
    /\ At(c, "Shared", "entry")
    /\ stack' = Enter(c, Token(c))
    /\ primask' = [primask EXCEPT ![c] = FALSE]
    /\ UNCHANGED <<config, fmt_out, init, value, cs_owner, panic, result, initCount,
                   accCount, calls, irqs>>

\* faulty variant: the lock is taken but the interrupts of the core stay active
runtime_threadsafe_enter_irqs_on(c) ==
    /\ At(c, "Shared", "entry")
    /\ \/ /\ cs_owner = {c}
          /\ stack' = Enter(c, "owned")
          /\ UNCHANGED <<primask, cs_owner>>
       \/ /\ cs_owner = NoCore
          /\ stack' = Enter(c, Token(c))
          /\ cs_owner' = {c}
          /\ UNCHANGED primask
    /\ UNCHANGED <<config, fmt_out, init, value, panic, result, initCount, accCount,
                   calls, irqs>>

\* faulty variant: the section refuses interrupt handlers, as a Local cell does
runtime_threadsafe_enter_no_irq(c) ==
    /\ At(c, "Shared", "entry")
    /\ IF runtime_isinterrupted(c)
          THEN Abort(c, "interrupt")
          ELSE /\ \/ /\ cs_owner = {c}
                     /\ stack' = Enter(c, "owned")
                     /\ UNCHANGED <<primask, cs_owner>>
                  \/ /\ cs_owner = NoCore
                     /\ stack' = Enter(c, Token(c))
                     /\ primask' = [primask EXCEPT ![c] = FALSE]
                     /\ cs_owner' = {c}
               /\ UNCHANGED <<config, fmt_out, init, value, panic, result,
                              initCount, accCount, calls, irqs>>

\* faulty variant: the section is entered and left without running the closure
runtime_threadsafe_enter_skip(c) ==
    /\ At(c, "Shared", "entry")
    /\ \/ /\ cs_owner = {c}
          /\ stack' = Goto(c, "exit", "owned")
          /\ UNCHANGED <<primask, cs_owner>>
       \/ /\ cs_owner = NoCore
          /\ stack' = Goto(c, "exit", Token(c))
          /\ primask' = [primask EXCEPT ![c] = FALSE]
          /\ cs_owner' = {c}
    /\ UNCHANGED <<config, fmt_out, init, value, panic, result, initCount, accCount,
                   calls, irqs>>

\* faulty variant: a lock per cell instead of the one critical section; a
\* core waits while the other core is inside a scope of the same cell
runtime_threadsafe_enter_per_cell(c) ==
    /\ At(c, "Shared", "entry")
    /\ IF ~Top(c).fn
          THEN Abort(c, "missing scope function")
          ELSE /\ \A i \in DOMAIN stack[1 - c] :
                     \/ stack[1 - c][i].cell # Top(c).cell
                     \/ stack[1 - c][i].pc = "entry"
               /\ \/ /\ c \in cs_owner
                     /\ stack' = Enter(c, "owned")
                     /\ UNCHANGED <<primask, cs_owner>>
                  \/ /\ c \notin cs_owner
                     /\ stack' = Enter(c, Token(c))
                     /\ primask' = [primask EXCEPT ![c] = FALSE]
                     /\ cs_owner' = cs_owner \cup {c}
               /\ UNCHANGED <<config, fmt_out, init, value, panic, result,
                              initCount, accCount, calls, irqs>>

\* critical_section::with, entry: a core that owns the section re-enters it;
\* another core masks its interrupts and claims the lock once it is free;
\* the closure then takes the accessor out of its slot
\* (`scope.take().expect(..)`: a closure that runs again finds it empty)
runtime_threadsafe_enter(c) ==
    /\ At(c, "Shared", "entry")
    /\ IF ~Top(c).fn
          THEN Abort(c, "missing scope function")
          ELSE /\ \/ /\ cs_owner = {c}
                     /\ stack' = Enter(c, "owned")
                     /\ UNCHANGED <<primask, cs_owner>>
                  \/ /\ cs_owner = NoCore
                     /\ stack' = Enter(c, Token(c))
                     /\ primask' = [primask EXCEPT ![c] = FALSE]
                     /\ cs_owner' = {c}
               /\ UNCHANGED <<config, fmt_out, init, value, panic, result,
                              initCount, accCount, calls, irqs>>

\* faulty variant: scope returns but the section is never released
runtime_threadsafe_exit_keep(c) ==
    /\ At(c, "Shared", "exit")
    /\ IF Top(c).tmp = NoneV
          THEN Abort(c, "no result")
          ELSE /\ result' = [result EXCEPT ![c] = Top(c).tmp]
               /\ stack' = Pop(c)
               /\ UNCHANGED <<config, fmt_out, init, value, primask, cs_owner,
                              panic, initCount, accCount, calls, irqs>>

\* critical_section::with, exit, and the return of scope with the result
\* (`result.expect(..)`: a scope whose closure set no result panics)
runtime_threadsafe_exit(c) ==
    /\ At(c, "Shared", "exit")
    /\ IF Top(c).tmp = NoneV
          THEN Abort(c, "no result")
          ELSE /\ IF Top(c).tok = "owned"
                     THEN UNCHANGED <<primask, cs_owner>>
                     ELSE /\ cs_owner' = NoCore
                          /\ primask' = [primask EXCEPT
                                            ![c] = (Top(c).tok = "active")]
               /\ result' = [result EXCEPT ![c] = Top(c).tmp]
               /\ stack' = Pop(c)
               /\ UNCHANGED <<config, fmt_out, init, value, panic, initCount,
                              accCount, calls, irqs>>

\* ----------------------------------------------------------- Local tier
\* faulty variant: the thread id is not compared
LocalCheck_no_thread(c, x) ==
    IF runtime_isinterrupted(c) THEN "interrupt" ELSE None

\* faulty variant: the interrupt state is not asserted
LocalCheck_no_interrupt(c, x) ==
    IF runtime_threadid(c) # thread_id[x] THEN "thread" ELSE None

\* faulty variant: the thread id is compared only inside interrupt handlers
LocalCheck_thread_in_irq(c, x) ==
    IF runtime_isinterrupted(c)
    THEN IF runtime_threadid(c) # thread_id[x] THEN "thread" ELSE "interrupt"
    ELSE None

\* faulty variant: the thread id is bounds-checked against the bound id
LocalCheck_bounds(c, x) ==
    IF runtime_threadid(c) >= thread_id[x] THEN "thread"
    ELSE IF runtime_isinterrupted(c) THEN "interrupt" ELSE None

\* the assertions of LocalCell::scope (interrupt first) and of
\* LocalSingleton::scope (thread id first): the message of the first that fails
LocalCheck(c, x) ==
    IF lazyc[x]
    THEN IF runtime_threadid(c) # thread_id[x] THEN "thread"
         ELSE IF runtime_isinterrupted(c) THEN "interrupt" ELSE None
    ELSE IF runtime_isinterrupted(c) THEN "interrupt"
         ELSE IF runtime_threadid(c) # thread_id[x] THEN "thread" ELSE None

\* faulty variant: the cell binds to the context of its first access
LocalScope_bind_first(c) ==
    /\ At(c, "Local", "entry")
    /\ IF accCount[Top(c).cell] = 0 /\ ~runtime_isinterrupted(c)
          THEN /\ thread_id' = [thread_id EXCEPT ![Top(c).cell] = runtime_threadid(c)]
               /\ stack' = Goto(c, "raw", None)
               /\ UNCHANGED <<kind, lazyc, ctor, fmt_out, init, value, primask,
                              cs_owner, panic, result, initCount, accCount, calls,
                              irqs>>
          ELSE IF LocalCheck(c, Top(c).cell) = None
          THEN /\ stack' = Goto(c, "raw", None)
               /\ UNCHANGED <<config, fmt_out, init, value, primask, cs_owner, panic,
                              result, initCount, accCount, calls, irqs>>
          ELSE Abort(c, LocalCheck(c, Top(c).cell))

LocalScope(c) ==
    /\ At(c, "Local", "entry")
    /\ IF LocalCheck(c, Top(c).cell) = None
          THEN /\ stack' = Goto(c, "raw", None)
               /\ UNCHANGED <<config, fmt_out, init, value, primask, cs_owner, panic,
                              result, initCount, accCount, calls, irqs>>
          ELSE Abort(c, LocalCheck(c, Top(c).cell))

\* the return of LocalCell::scope / LocalSingleton::scope
LocalReturn(c) ==
    /\ At(c, "Local", "exit")
    /\ result' = [result EXCEPT ![c] = Top(c).tmp]
    /\ stack' = Pop(c)
    /\ UNCHANGED <<config, fmt_out, init, value, primask, cs_owner, panic, initCount,
                   accCount, calls, irqs>>

\* ------------------------------------------------------- Interrupt tier
\* faulty variant: interrupt handlers are refused, as on a Local cell
InterruptCheck_no_irq(c, x) ==
    IF runtime_threadid(c) # thread_id[x] THEN "thread"
    ELSE IF runtime_isinterrupted(c) THEN "interrupt" ELSE None

\* the assertion of InterruptCell::scope / InterruptSingleton::scope
InterruptCheck(c, x) ==
    IF runtime_threadid(c) # thread_id[x] THEN "thread" ELSE None

\* faulty variant: the thread id is asserted inside _runtime_interruptsafe,
\* after interrupt::disable()
InterruptScope_check_late(c) ==
    /\ At(c, "Interrupt", "entry")
    /\ IF InterruptCheck(c, Top(c).cell) = None
          THEN /\ stack' = Goto(c, "mask", None)
               /\ UNCHANGED <<config, fmt_out, init, value, primask, cs_owner, panic,
                              result, initCount, accCount, calls, irqs>>
          ELSE /\ panic' = [panic EXCEPT ![c] = InterruptCheck(c, Top(c).cell)]
               /\ primask' = [primask EXCEPT ![c] = FALSE]
               /\ UNCHANGED <<config, fmt_out, init, value, stack, cs_owner, result,
                              initCount, accCount, calls, irqs>>

InterruptScope(c) ==
    /\ At(c, "Interrupt", "entry")
    /\ IF InterruptCheck(c, Top(c).cell) = None
          THEN /\ stack' = Goto(c, "mask", None)
               /\ UNCHANGED <<config, fmt_out, init, value, primask, cs_owner, panic,
                              result, initCount, accCount, calls, irqs>>
          ELSE Abort(c, InterruptCheck(c, Top(c).cell))

\* faulty variant: PRIMASK is read but the interrupts are not disabled
runtime_interruptsafe_enter_no_disable(c) ==
    /\ At(c, "Interrupt", "disable")
    /\ stack' = Enter(c, Top(c).tok)
    /\ UNCHANGED <<config, fmt_out, init, value, primask, cs_owner, panic, result,
                   initCount, accCount, calls, irqs>>

\* _runtime_interruptsafe, `let interrupts_active = primask::read().is_active()`:
\* PRIMASK is read; a handler may still fire before interrupts are disabled
runtime_interruptsafe_read(c) ==
    /\ At(c, "Interrupt", "mask")
    /\ stack' = Goto(c, "disable", Token(c))
    /\ UNCHANGED <<config, fmt_out, init, value, primask, cs_owner, panic, result,
                   initCount, accCount, calls, irqs>>

\* _runtime_interruptsafe, `interrupt::disable(); code()`: the interrupts of
\* the core are disabled and the closure takes the accessor out of its slot
runtime_interruptsafe_enter(c) ==
    /\ At(c, "Interrupt", "disable")
    /\ IF ~Top(c).fn
          THEN Abort(c, "missing scope function")
          ELSE /\ stack' = Enter(c, Top(c).tok)
               /\ primask' = [primask EXCEPT ![c] = FALSE]
               /\ UNCHANGED <<config, fmt_out, init, value, cs_owner, panic,
                              result, initCount, accCount, calls, irqs>>

\* faulty variant: interrupts are enabled at the end, whatever they were
runtime_interruptsafe_exit_enable(c) ==
    /\ At(c, "Interrupt", "exit")
    /\ primask' = [primask EXCEPT ![c] = TRUE]
    /\ result' = [result EXCEPT ![c] = Top(c).tmp]
    /\ stack' = Pop(c)
    /\ UNCHANGED <<config, fmt_out, init, value, cs_owner, panic,
                   initCount, accCount, calls, irqs>>

\* _runtime_interruptsafe, exit, and the return of scope with the result
\* (`result.expect(..)`: a scope whose closure set no result panics)
runtime_interruptsafe_exit(c) ==
    /\ At(c, "Interrupt", "exit")
    /\ IF Top(c).tmp = NoneV
          THEN Abort(c, "no result")
          ELSE /\ primask' = [primask EXCEPT
                                 ![c] = IF Top(c).tok = "active" THEN TRUE ELSE @]
               /\ result' = [result EXCEPT ![c] = Top(c).tmp]
               /\ stack' = Pop(c)
               /\ UNCHANGED <<config, fmt_out, init, value, cs_owner, panic,
                              initCount, accCount, calls, irqs>>

\* ------------------------------------------------------------ Lazy Value
\* faulty variant: the initializer is called through a reference and stays in its slot
LazyTake_keep(c) ==
    /\ Running(c)
    /\ Top(c).pc = "raw"
    /\ lazyc[Top(c).cell]
    /\ IF init[Top(c).cell]
          THEN /\ initCount' = [initCount EXCEPT ![Top(c).cell] = @ + 1]
               /\ stack' = Goto(c, "init", Top(c).tok)
               /\ UNCHANGED init
          ELSE /\ stack' = Goto(c, "as_mut", Top(c).tok)
               /\ UNCHANGED <<init, initCount>>
    /\ UNCHANGED <<config, fmt_out, value, primask, cs_owner, panic, result, accCount,
                   calls, irqs>>

\* LazyCell::scope, `if let Some(init) = init.take()`: the slot is emptied and
\* the initializer starts; with an empty slot the value is taken as it is
LazyTake(c) ==
    /\ Running(c)
    /\ Top(c).pc = "raw"
    /\ lazyc[Top(c).cell]
    /\ IF init[Top(c).cell]
          THEN /\ init' = [init EXCEPT ![Top(c).cell] = FALSE]
               /\ initCount' = [initCount EXCEPT ![Top(c).cell] = @ + 1]
               /\ stack' = Goto(c, "init", Top(c).tok)
          ELSE /\ stack' = Goto(c, "as_mut", Top(c).tok)
               /\ UNCHANGED <<init, initCount>>
    /\ UNCHANGED <<config, fmt_out, value, primask, cs_owner, panic, result, accCount,
                   calls, irqs>>

\* faulty variant: the value the initializer produced is dropped
LazyStore_drop(c) ==
    /\ Running(c)
    /\ Top(c).pc = "init"
    /\ stack' = Goto(c, "as_mut", Top(c).tok)
    /\ UNCHANGED <<config, fmt_out, init, value, primask, cs_owner, panic, result,
                   initCount, accCount, calls, irqs>>

\* LazyCell::scope, `*value = Some(value_)`: the initializer has returned
LazyStore(c) ==
    /\ Running(c)
    /\ Top(c).pc = "init"
    /\ value' = [value EXCEPT ![Top(c).cell] = Some(0)]
    /\ stack' = Goto(c, "as_mut", Top(c).tok)
    /\ UNCHANGED <<config, fmt_out, init, primask, cs_owner, panic, result, initCount,
                   accCount, calls, irqs>>

\* ------------------------------------------------------------- accessor
\* raw of a plain cell, or `value.as_mut()` of a lazy one, hands the value to
\* the accessor, which reads it; a lazy cell without a value panics
AccessorRead(c) ==
    /\ Running(c)
    /\ \/ Top(c).pc = "raw" /\ ~lazyc[Top(c).cell]
       \/ Top(c).pc = "as_mut"
    /\ IF value[Top(c).cell] = NoneV
          THEN Abort(c, "unreachable")
          ELSE /\ stack' = SetTop(c, [Top(c) EXCEPT !.pc = "write",
                                                    !.tmp = value[Top(c).cell]])
               /\ UNCHANGED <<config, fmt_out, init, value, primask, cs_owner, panic,
                              result, initCount, accCount, calls, irqs>>

\* the accessor writes what it read plus one, and returns what it wrote
AccessorWrite(c) ==
    /\ Running(c)
    /\ Top(c).pc = "write"
    /\ Top(c).op # "fmt"
    /\ value' = [value EXCEPT ![Top(c).cell] = Some(Unwrap(Top(c).tmp) + 1)]
    /\ accCount' = [accCount EXCEPT ![Top(c).cell] = @ + 1]
    /\ stack' = SetTop(c, [Top(c) EXCEPT !.pc = "exit",
                                         !.tmp = Some(Unwrap(@) + 1)])
    /\ UNCHANGED <<config, fmt_out, init, primask, cs_owner, panic, result, initCount,
                   calls, irqs>>

\* ------------------------------------------------------ specification
Next ==
    \E c \in Cores :
        \/ Call(c, "X")
        \/ Irq(c, "X")
        \/ runtime_threadsafe_enter(c)
        \/ runtime_threadsafe_exit(c)
        \/ LocalScope(c)
        \/ LocalReturn(c)
        \/ InterruptScope(c)
        \/ runtime_interruptsafe_read(c)
        \/ runtime_interruptsafe_enter(c)
        \/ runtime_interruptsafe_exit(c)
        \/ LazyTake(c)
        \/ LazyStore(c)
        \/ AccessorRead(c)
        \/ AccessorWrite(c)

Spec == Init /\ [][Next]_vars

\* the steps of the scope calls in progress on core c, without the callers
Step(c) ==
    \/ runtime_threadsafe_enter(c)
    \/ runtime_threadsafe_exit(c)
    \/ LocalScope(c)
    \/ LocalReturn(c)
    \/ InterruptScope(c)
    \/ runtime_interruptsafe_read(c)
    \/ runtime_interruptsafe_enter(c)
    \/ runtime_interruptsafe_exit(c)
    \/ LazyTake(c)
    \/ LazyStore(c)
    \/ AccessorRead(c)
    \/ AccessorWrite(c)

\* ------------------------------------------------------- nested scopes
\* code inside the initializer or inside the accessor of the activation of
\* core c calls x.scope(accessor) again
Nest(c, x) ==
    /\ Running(c)
    /\ Top(c).pc \in {"init", "write"}
    /\ calls[c] < MaxCalls
    /\ stack' = [stack EXCEPT ![c] = Append(@, Frame(x, FALSE))]
    /\ calls' = [calls EXCEPT ![c] = @ + 1]
    /\ UNCHANGED <<config, fmt_out, init, value, primask, cs_owner, panic,
                   result, initCount, accCount, irqs>>

\* an accessor whose `&mut T` was written through by a nested accessor: the
\* two references alias, and the build may as well read the value again
\* (AccessorWrite is the outcome in which it keeps what it read)
AccessorWriteAliased(c) ==
    /\ Running(c)
    /\ Top(c).pc = "write"
    /\ Top(c).op # "fmt"
    /\ value[Top(c).cell] # NoneV
    /\ value[Top(c).cell] # Top(c).tmp
    /\ value' = [value EXCEPT ![Top(c).cell] = Some(Unwrap(@) + 1)]
    /\ accCount' = [accCount EXCEPT ![Top(c).cell] = @ + 1]
    /\ stack' = SetTop(c, [Top(c) EXCEPT
                              !.pc = "exit",
                              !.tmp = Some(Unwrap(value[Top(c).cell]) + 1)])
    /\ UNCHANGED <<config, fmt_out, init, primask, cs_owner, panic, result,
                   initCount, calls, irqs>>

\* thread-mode code whose initializers and accessors call scope again
NextNested ==
    \E c \in Cores :
        \/ Call(c, "X")
        \/ Nest(c, "X")
        \/ Step(c)
        \/ AccessorWriteAliased(c)

SpecNested == Init /\ [][NextNested]_vars

\* code inside the initializer or inside the accessor of the activation of
\* core c calls scope on another cell, x, that the core is not yet inside
NestOther(c, x) ==
    /\ \A i \in DOMAIN stack[c] : stack[c][i].cell # x
    /\ Nest(c, x)

\* an interrupt preempts the thread-mode code of core c, not another
\* handler, and its handler calls x.scope(accessor)
IrqThread(c, x) ==
    /\ ~runtime_isinterrupted(c)
    /\ Irq(c, x)

\* thread-mode code and interrupt handlers whose accessors call scope on a
\* second cell
NextNestedIrq ==
    \E c \in Cores :
        \/ Call(c, "X")
        \/ IrqThread(c, "X")
        \/ NestOther(c, "Y")
        \/ Step(c)

SpecNestedIrq == Init /\ [][NextNestedIrq]_vars

\* ---------------------------------------------------------------- Debug
\* the activation of `impl Debug`: it starts at the checks of fmt
FmtFrame(x, isr) == [Frame(x, isr) EXCEPT !.pc = "fmt", !.op = "fmt"]

\* thread-mode code of core c starts with a scope call on x
CallFirst(c, x) ==
    /\ calls[c] = 0
    /\ Call(c, x)

\* thread-mode code of core c formats x with {:?}
Fmt(c, x) ==
    /\ panic[c] = None
    /\ stack[c] = <<>>
    /\ calls[c] < MaxCalls
    /\ stack' = [stack EXCEPT ![c] = Append(@, FmtFrame(x, FALSE))]
    /\ calls' = [calls EXCEPT ![c] = @ + 1]
    /\ UNCHANGED <<config, fmt_out, init, value, primask, cs_owner, panic,
                   result, initCount, accCount, irqs>>

\* an interrupt preempts the thread-mode code of core c and its handler
\* formats x with {:?}
IrqFmt(c, x) ==
    /\ panic[c] = None
    /\ primask[c]
    /\ ~runtime_isinterrupted(c)
    /\ irqs[c] < MaxIrqs
    /\ stack' = [stack EXCEPT ![c] = Append(@, FmtFrame(x, TRUE))]
    /\ irqs' = [irqs EXCEPT ![c] = @ + 1]
    /\ UNCHANGED <<config, fmt_out, init, value, primask, cs_owner, panic,
                   result, initCount, accCount, calls>>

\* the description fmt gives in another thread: the singletons word it
\* differently from the cells
OtherThread(x) ==
    IF lazyc[x] THEN "<opaque due to different thread context>"
    ELSE "<opaque due to different thread>"

\* faulty variant: fmt of a Local cell does not look at the interrupt state
DebugCheck_no_interrupt(c, x) ==
    IF kind[x] = "Shared" THEN None
    ELSE IF runtime_threadid(c) # thread_id[x]
         THEN OtherThread(x)
         ELSE None

\* the early returns of fmt: the opaque description fmt writes instead of the
\* value, or None when fmt goes on to self.scope(|value| value.fmt(f))
DebugCheck(c, x) ==
    IF kind[x] = "Shared" THEN None
    ELSE IF runtime_threadid(c) # thread_id[x]
         THEN OtherThread(x)
         ELSE IF kind[x] = "Local" /\ runtime_isinterrupted(c)
              THEN "<opaque due to interrupt context>"
              ELSE None

\* Debug::fmt: the opaque description and the return, or the call of scope
DebugFmt(c) ==
    /\ Running(c)
    /\ Top(c).pc = "fmt"
    /\ IF DebugCheck(c, Top(c).cell) = None
          THEN /\ stack' = Goto(c, "entry", None)
               /\ UNCHANGED fmt_out
          ELSE /\ fmt_out' = [fmt_out EXCEPT
                                 ![c] = Opaque(DebugCheck(c, Top(c).cell))]
               /\ stack' = Pop(c)
    /\ UNCHANGED <<config, init, value, primask, cs_owner, panic, result,
                   initCount, accCount, calls, irqs>>

\* the accessor of fmt, `|value| value.fmt(f)`: it writes the value it was
\* handed to the Formatter and leaves the value as it is
FmtValue(c) ==
    /\ Running(c)
    /\ Top(c).pc = "write"
    /\ Top(c).op = "fmt"
    /\ fmt_out' = [fmt_out EXCEPT ![c] = Live(Top(c).tmp)]
    /\ stack' = SetTop(c, [Top(c) EXCEPT !.pc = "exit"])
    /\ UNCHANGED <<config, init, value, primask, cs_owner, panic, result,
                   initCount, accCount, calls, irqs>>

\* contexts that write the cell once and format it, from thread mode and
\* from interrupt handlers
NextFmt ==
    \E c \in Cores :
        \/ CallFirst(c, "X")
        \/ Fmt(c, "X")
        \/ IrqFmt(c, "X")
        \/ DebugFmt(c)
        \/ FmtValue(c)
        \/ Step(c)

SpecFmt == Init /\ [][NextFmt]_vars

\* ------------------------------------------------------------- fairness
\* thread-mode code of core c formats x with {:?} in a loop that never ends
FmtLoop(c, x) ==
    /\ panic[c] = None
    /\ stack[c] = <<>>
    /\ stack' = [stack EXCEPT ![c] = Append(@, FmtFrame(x, FALSE))]
    /\ UNCHANGED <<config, fmt_out, init, value, primask, cs_owner, panic,
                   result, initCount, accCount, calls, irqs>>

\* a core executes the operation it is in: the step that is enabled is taken
Progress(c) == Step(c) \/ DebugFmt(c) \/ FmtValue(c)

NextFair ==
    \E c \in Cores :
        \/ Call(c, "X")
        \/ FmtLoop(c, "X")
        \/ Progress(c)

\* the cores run on, whatever the other does; nothing makes the program call
\* an operation
SpecFair ==
    /\ Init
    /\ [][NextFair]_vars
    /\ \A c \in Cores : WF_vars(Progress(c))

\* ------------------------------------------------------------------ raw
\* the activation of the unsafe raw: no check, no exclusivity window
RawFrame(x, isr) == [Frame(x, isr) EXCEPT !.pc = "raw", !.op = "raw"]

\* thread-mode code of core c calls unsafe { x.raw(accessor) }
Raw(c, x) ==
    /\ panic[c] = None
    /\ stack[c] = <<>>
    /\ calls[c] < MaxCalls
    /\ stack' = [stack EXCEPT ![c] = Append(@, RawFrame(x, FALSE))]
    /\ calls' = [calls EXCEPT ![c] = @ + 1]
    /\ UNCHANGED <<config, fmt_out, init, value, primask, cs_owner, panic,
                   result, initCount, accCount, irqs>>

\* the return of raw with the result of the accessor
RawReturn(c) ==
    /\ Running(c)
    /\ Top(c).op = "raw"
    /\ Top(c).pc = "exit"
    /\ result' = [result EXCEPT ![c] = Top(c).tmp]
    /\ stack' = Pop(c)
    /\ UNCHANGED <<config, fmt_out, init, value, primask, cs_owner, panic,
                   initCount, accCount, calls, irqs>>

\* thread-mode code that calls scope, formats the cell and calls the unsafe raw
NextRaw ==
    \E c \in Cores :
        \/ Call(c, "X")
        \/ Fmt(c, "X")
        \/ Raw(c, "X")
        \/ RawReturn(c)
        \/ DebugFmt(c)
        \/ FmtValue(c)
        \/ Step(c)

SpecRaw == Init /\ [][NextRaw]_vars

\* ------------------------------------------------- what the claims read
\* the activations <<core, depth>> of the program
Frames == {<<c, i>> \in Cores \X (1..(MaxCalls + MaxIrqs)) : i <= Len(stack[c])}

FrameOf(a) == stack[a[1]][a[2]]

\* the activation belongs to an interrupt handler
FrameInIrq(a) == \E j \in 1..a[2] : stack[a[1]][j].isr

\* the activations on x that passed the access policy of scope
Admitted(x) ==
    {a \in Frames : /\ FrameOf(a).cell = x
                    /\ FrameOf(a).op # "raw"
                    /\ FrameOf(a).pc \notin {"fmt", "entry"}}

\* the activations on x inside the initializer or inside the accessor
InBody(x) == {a \in Frames : FrameOf(a).cell = x /\ FrameOf(a).pc \in {"init", "write"}}

\* the activations on x inside the accessor, which has read the value
InAccessor(x) == {a \in Frames : FrameOf(a).cell = x /\ FrameOf(a).pc = "write"}

\* the activations on x inside the initializer
InInit(x) == {a \in Frames : FrameOf(a).cell = x /\ FrameOf(a).pc = "init"}

\* the activations on x that hold the value: after initialization, up to the return
HasValue(x) ==
    {a \in Frames : FrameOf(a).cell = x /\ FrameOf(a).pc \in {"as_mut", "write", "exit"}}

\* the scope calls core c has issued
Issued(c) == calls[c] + irqs[c]

Idle == \A c \in Cores : stack[c] = <<>>

\* C1: on a Shared cell at most one context is inside an accessor or the
\* initializer at any moment
C1_SharedBodiesNeverOverlap ==
    kind["X"] = "Shared" => Cardinality(InBody("X")) <= 1

\* C1 witness: one core is inside its accessor while the other core has
\* called scope on the same Shared cell and waits
C1_Witness ==
    /\ kind["X"] = "Shared"
    /\ \E c, d \in Cores :
          /\ c # d
          /\ Running(c) /\ Top(c).pc = "write"
          /\ Running(d) /\ Top(d).pc = "entry"

\* C2: on a SharedSingleton the initializer is invoked at most once, it has
\* been invoked exactly once when a call holds the value, and every accessor is
\* handed the one value (as the accessors before it left it)
C2_SharedSingletonInitOnce ==
    (kind["X"] = "Shared" /\ lazyc["X"]) =>
        /\ initCount["X"] <= 1
        /\ \A a \in HasValue("X") :
              /\ initCount["X"] = 1
              /\ value["X"] # NoneV
        /\ \A a \in InAccessor("X") : FrameOf(a).tmp = Some(accCount["X"])

\* C2 witness: the initializer runs on one core while the other core is in its
\* first scope call on the singleton, and an accessor has not run yet
C2_Witness ==
    /\ kind["X"] = "Shared" /\ lazyc["X"]
    /\ accCount["X"] = 0
    /\ \E c, d \in Cores :
          /\ c # d
          /\ Running(c) /\ Top(c).pc = "init" /\ Issued(c) = 1
          /\ Running(d) /\ Top(d).pc = "entry" /\ Issued(d) = 1

\* C3: on a lazy cell the initializer runs exactly once, before the first
\* accessor, its count stays 1, and every accessor sees the value the
\* accessors before it left
C3_LazyInitExactlyOnce ==
    lazyc["X"] =>
        /\ initCount["X"] <= 1
        /\ (accCount["X"] > 0 \/ HasValue("X") # {}) =>
              (initCount["X"] = 1 /\ ~init["X"])
        /\ \A a \in InAccessor("X") : FrameOf(a).tmp = Some(accCount["X"])
        /\ (Idle /\ accCount["X"] > 0) => value["X"] = Some(accCount["X"])

\* C3 witness: one context has made all its calls on a lazy cell one after
\* the other, and the last one returned the value the earlier ones left
C3_Witness ==
    /\ lazyc["X"] /\ kind["X"] = "Local"
    /\ \E c \in Cores :
          /\ calls[c] = MaxCalls /\ stack[c] = <<>>
          /\ accCount["X"] = MaxCalls
          /\ result[c] = Some(MaxCalls)
          /\ initCount["X"] = 1

\* C4: when every scope call on a Shared counter cell has returned, the
\* counter equals the number of calls: no increment is lost
C4_NoLostUpdate ==
    (kind["X"] = "Shared" /\ ~lazyc["X"]) =>
        /\ value["X"] = Some(accCount["X"])
        /\ Idle => value["X"] = Some(Issued(0) + Issued(1))

\* C4 witness: both cores made all their calls, and all have returned
C4_Witness ==
    /\ kind["X"] = "Shared" /\ ~lazyc["X"]
    /\ Idle
    /\ \A c \in Cores : calls[c] = MaxCalls /\ irqs[c] = MaxIrqs

\* C5: a scope call on a Local cell from a core other than the bound one never
\* passes the check: it stays at its entry until it panics, the core never
\* returns from it and never gets a result
C5_LocalOtherThreadAborts ==
    kind["X"] = "Local" =>
        \A c \in Cores : runtime_threadid(c) # thread_id["X"] =>
            /\ \A a \in Admitted("X") : a[1] # c
            /\ result[c] = NoneV
            /\ Issued(c) > 0 => stack[c] # <<>>
            /\ panic[c] \in {None, "thread", "interrupt"}
            /\ (panic[c] = None /\ stack[c] # <<>>) => ENABLED LocalScope(c)

\* C5 witness: thread-mode code of a core other than the bound one called
\* scope and panicked on the thread id
C5_Witness ==
    /\ kind["X"] = "Local"
    /\ \E c \in Cores :
          /\ runtime_threadid(c) # thread_id["X"]
          /\ calls[c] = 1 /\ irqs[c] = 0
          /\ panic[c] = "thread"

\* C6: a scope call on a Local cell from an interrupt handler never passes the
\* check, also on the bound core: the handler stays at its entry until it
\* panics and never returns
C6_LocalInterruptAborts ==
    kind["X"] = "Local" =>
        /\ \A a \in Admitted("X") : ~FrameInIrq(a)
        /\ \A c \in Cores : irqs[c] > 0 =>
              /\ runtime_isinterrupted(c)
              /\ Top(c).isr /\ Top(c).pc = "entry"
              /\ panic[c] \in {None, "thread", "interrupt"}

\* C6 witness: an interrupt handler of the bound core called scope and panicked
C6_Witness ==
    /\ kind["X"] = "Local"
    /\ \E c \in Cores :
          /\ runtime_threadid(c) = thread_id["X"]
          /\ irqs[c] = 1
          /\ panic[c] = "interrupt"

\* C7: on an Interrupt cell the bound core never panics, in thread mode or in a
\* handler, and each of its calls runs its accessor and returns its result;
\* any other core never passes the check and never returns
C7_InterruptCellPolicy ==
    kind["X"] = "Interrupt" =>
        \A c \in Cores :
            IF runtime_threadid(c) = thread_id["X"]
            THEN /\ panic[c] = None
                 /\ stack[c] = <<>> =>
                       /\ accCount["X"] = Issued(c)
                       /\ Issued(c) > 0 => result[c] = Some(accCount["X"])
            ELSE /\ \A a \in Admitted("X") : a[1] # c
                 /\ result[c] = NoneV
                 /\ Issued(c) > 0 => stack[c] # <<>>
                 /\ panic[c] \in {None, "thread"}

\* C7 witness: a handler and thread-mode code of the bound core have both
\* returned from scope, and a handler of the other core has panicked
C7_Witness ==
    /\ kind["X"] = "Interrupt"
    /\ \E c, d \in Cores :
          /\ runtime_threadid(c) = thread_id["X"]
          /\ irqs[c] = 1 /\ calls[c] >= 1 /\ stack[c] = <<>>
          /\ result[c] = Some(Issued(c))
          /\ runtime_threadid(d) # thread_id["X"]
          /\ irqs[d] = 1 /\ panic[d] = "thread"

\* C8: while an activation on an Interrupt cell is between the masking and
\* the return, the interrupts of its core are masked, and at most one
\* activation is inside the accessor or the initializer
C8_InterruptBodiesNeverOverlap ==
    kind["X"] = "Interrupt" =>
        /\ Cardinality(InBody("X")) <= 1
        /\ \A a \in Frames :
              FrameOf(a).pc \in {"raw", "init", "as_mut", "write", "exit"} =>
                  /\ ~primask[a[1]]
                  /\ a[2] = Len(stack[a[1]])

\* C8 witness: thread-mode code of the bound core is inside its accessor, and
\* the interrupt of that core, which has not fired yet, cannot fire
C8_Witness ==
    /\ kind["X"] = "Interrupt"
    /\ \E c \in Cores :
          /\ runtime_threadid(c) = thread_id["X"]
          /\ Running(c) /\ Top(c).pc = "write" /\ ~Top(c).isr
          /\ irqs[c] = 0
          /\ ~ENABLED Irq(c, "X")

\* C9: every activation on a Local cell that passed the check runs on the
\* bound core in thread mode, and at most one is inside the accessor or the
\* initializer
C9_LocalOnlyBoundThread ==
    kind["X"] = "Local" =>
        /\ \A a \in Admitted("X") :
              /\ runtime_threadid(a[1]) = thread_id["X"]
              /\ ~FrameInIrq(a)
        /\ Cardinality(InBody("X")) <= 1
        /\ Cardinality(Admitted("X")) <= 1

\* C9 witness: the bound core is inside its accessor, a handler that preempted
\* it has panicked, and the other core has panicked too
C9_Witness ==
    /\ kind["X"] = "Local"
    /\ \E c, d \in Cores :
          /\ runtime_threadid(c) = thread_id["X"]
          /\ Len(stack[c]) = 2
          /\ stack[c][1].pc = "write"
          /\ panic[c] = "interrupt"
          /\ c # d /\ panic[d] # None

\* the two states of a Lazy Value
TwoStates(x) ==
    \/ init[x] /\ value[x] = NoneV
    \/ ~init[x] /\ value[x] # NoneV

\* C10 as claimed: a Lazy Value is in one of its two states in every
\* reachable state, also while the initializer is executing
C10_Claimed_TwoStatesAlways ==
    lazyc["X"] => TwoStates("X")

\* C10 as amended: a Lazy Value is in one of its two states whenever no call
\* is inside its initializer; while the one call that runs the initializer is
\* inside it, the slot is empty and there is no value yet
C10_LazyTwoStatesOutsideInit ==
    lazyc["X"] =>
        /\ Cardinality(InInit("X")) <= 1
        /\ InInit("X") = {} => TwoStates("X")
        /\ InInit("X") # {} => (~init["X"] /\ value["X"] = NoneV)

\* C10 witness: the initializer has returned, the slot is empty and the value
\* is there
C10_Witness ==
    /\ lazyc["X"]
    /\ initCount["X"] = 1
    /\ InInit("X") = {}
    /\ ~init["X"] /\ value["X"] # NoneV

\* C11: once the initializer of a lazy cell has been started its slot is
\* empty for every caller, also for a scope call issued from inside the
\* running initializer or from an accessor, and the initializer is never
\* started a second time
C11_NoReentrantInit ==
    \A x \in Cells :
        /\ initCount[x] <= 1
        /\ initCount[x] >= 1 => ~init[x]
        /\ InInit(x) # {} => ~init[x]

\* a scope call issued from inside the running initializer has looked at the
\* slot, found it empty and gone on without starting the initializer again
C11_Witness ==
    \E c \in Cores :
        /\ Len(stack[c]) = 2
        /\ stack[c][1].cell = "X" /\ stack[c][1].pc = "init"
        /\ stack[c][2].cell = "X" /\ stack[c][2].pc = "as_mut"
        /\ initCount["X"] = 1

\* the message scope would abort with in the context of core c, or None
ScopeCheck(c, x) ==
    IF kind[x] = "Local" THEN LocalCheck(c, x)
    ELSE IF kind[x] = "Interrupt" THEN InterruptCheck(c, x)
    ELSE None

\* the activation on top of core c takes a step or returns
TopSteps(c) ==
    /\ Running(c)
    /\ stack'[c] # stack[c]
    /\ Len(stack'[c]) <= Len(stack[c])

\* the checks of fmt agree with those of scope: where scope would abort, fmt
\* writes an opaque description, returns, and touches neither the cell nor
\* the core; elsewhere it goes on to scope
C12_FmtChecks(c) ==
    TopSteps(c) /\ Top(c).pc = "fmt" =>
        IF ScopeCheck(c, Top(c).cell) # None
        THEN /\ fmt_out'[c].val = NoneV
             /\ fmt_out'[c].text \in {OtherThread(Top(c).cell),
                                      "<opaque due to interrupt context>"}
             /\ stack'[c] = SubSeq(stack[c], 1, Len(stack[c]) - 1)
             /\ UNCHANGED <<value, init, panic, initCount, accCount>>
        ELSE /\ Len(stack'[c]) = Len(stack[c])
             /\ stack'[c][Len(stack[c])].pc = "entry"
             /\ UNCHANGED <<fmt_out, value, init, panic>>

\* the accessor of fmt writes the value the cell holds and leaves it alone
C12_FmtLive(c) ==
    TopSteps(c) /\ Top(c).op = "fmt" /\ Top(c).pc = "write" =>
        /\ fmt_out'[c] = Live(value[Top(c).cell])
        /\ UNCHANGED <<value, init, accCount>>

\* C12: Debug formatting respects the access policy of its variant: where
\* scope would abort (Local: other thread or interrupt handler; Interrupt:
\* other thread) it writes a fixed opaque description, does not access the
\* value and never aborts; in a permitted context it formats the live value
\* through scope
C12_DebugRespectsPolicy ==
    /\ [](\A c \in Cores :
             /\ panic[c] # None => Top(c).op # "fmt"
             /\ fmt_out[c].text = "value" => ScopeCheck(c, "X") # "thread")
    /\ [][\A c \in Cores : C12_FmtChecks(c) /\ C12_FmtLive(c)]_vars

\* on a Local cell the bound core has written the value, formatted it from an
\* interrupt handler and then from thread mode, where it got the live value,
\* and the other core got the opaque description; nothing has aborted
C12_Witness ==
    /\ kind["X"] = "Local"
    /\ \E c, d \in Cores :
          /\ c # d
          /\ irqs[c] >= 1
          /\ fmt_out[c] = Live(Some(1))
          /\ fmt_out[d] = Opaque(OtherThread("X"))
          /\ panic[c] = None /\ panic[d] = None

\* the step writes the value of x from the accessor of the activation on top
\* of some core
WrittenByAccessor(x) ==
    \E c \in Cores :
        /\ Running(c)
        /\ Top(c).cell = x
        /\ Top(c).pc = "write"
        /\ stack'[c] = SetTop(c, [Top(c) EXCEPT !.pc = "exit", !.tmp = value'[x]])[c]

\* the step stores the first value of x from its initializer
StoredByInit(x) ==
    /\ value[x] = NoneV
    /\ \E c \in Cores : Running(c) /\ Top(c).cell = x /\ Top(c).pc = "init"

\* C13: on a Shared cell the stored value changes only when an accessor
\* writes it (or when the initializer stores the first value), and an
\* accessor holds the value as it was last written: what one scope call
\* wrote is what a later one reads, from any context
C13_SharedRoundTrip ==
    /\ [](kind["X"] = "Shared" =>
             \A a \in InAccessor("X") : FrameOf(a).tmp = value["X"])
    /\ [][kind["X"] = "Shared" /\ value'["X"] # value["X"] =>
             WrittenByAccessor("X") \/ StoredByInit("X")]_vars

\* an accessor on one core holds the value that the scope call of the other
\* core wrote and returned
C13_Witness ==
    /\ kind["X"] = "Shared"
    /\ \E c, d \in Cores :
          /\ c # d
          /\ result[c] # NoneV
          /\ Unwrap(result[c]) >= 1
          /\ Running(d)
          /\ Top(d).pc = "write"
          /\ Top(d).isr
          /\ Top(d).tmp = result[c]

\* C14: a Shared cell is bound to no context: no scope call on it aborts,
\* whatever the core and the interrupt state of the caller, a call waits only
\* while the other core is inside the section, and every call that returned
\* has run its accessor
C14_SharedNoBoundIdentity ==
    kind["X"] = "Shared" =>
        /\ \A c \in Cores : panic[c] = None
        /\ \A a \in Frames :
              FrameOf(a).pc = "entry" /\ a[2] = Len(stack[a[1]])
                  => \/ cs_owner = {1 - a[1]}
                     \/ ENABLED runtime_threadsafe_enter(a[1])
        /\ Idle => accCount["X"] = Issued(0) + Issued(1)

\* core 1, inside an interrupt handler, is in the accessor of a Shared cell
C14_Witness ==
    /\ kind["X"] = "Shared"
    /\ \E a \in InAccessor("X") : a[1] = 1 /\ FrameInIrq(a)

\* the scope calls that have returned
Returned == Issued(0) + Issued(1) - Len(stack[0]) - Len(stack[1])

\* the activations whose accessor has returned its result
AtExit(x) == {a \in Frames : FrameOf(a).cell = x /\ FrameOf(a).pc = "exit"}

\* C15: every scope call that passes the policy runs its accessor exactly
\* once, after the initialization it may need, and returns exactly the result
\* of the accessor; the panics "missing scope function" and "implementation
\* scope did not set result value" are unreachable
C15_AccessorOnceResultReturned ==
    /\ [](/\ \A c \in Cores :
                panic[c] \notin {"missing scope function", "no result"}
          /\ accCount["X"] = Returned + Cardinality(AtExit("X"))
          /\ \A a \in InAccessor("X") \cup AtExit("X") :
                /\ value["X"] # NoneV
                /\ lazyc["X"] => ~init["X"] /\ initCount["X"] = 1
                /\ ~FrameOf(a).fn \/ kind["X"] = "Local"
          /\ \A a \in AtExit("X") : FrameOf(a).tmp # NoneV)
    /\ [][\A c \in Cores :
             Len(stack'[c]) < Len(stack[c]) =>
                 /\ Top(c).pc = "exit"
                 /\ result'[c] = Top(c).tmp]_vars

\* all the calls on a lazy cell have returned, the initializer ran for the
\* first of them, each ran its accessor, and the last result returned is the
\* value the cell holds
C15_Witness ==
    /\ lazyc["X"]
    /\ Idle
    /\ initCount["X"] = 1
    /\ accCount["X"] >= 2
    /\ accCount["X"] = Returned
    /\ \E c \in Cores : result[c] = value["X"]

\* the call core c is in has returned, or has aborted
Done(c) == stack[c] = <<>> \/ panic[c] # None

\* core c is in a call and waits for nothing: it is not before the critical
\* section of a Shared cell
InWindow(c) ==
    /\ stack[c] # <<>>
    /\ kind[Top(c).cell] = "Shared" => Top(c).pc \notin {"fmt", "entry"}

\* C16 as claimed: under fair scheduling of the cores every scope call,
\* formatting included, returns (or aborts), whatever the other core does
C16_Claimed_EveryCallReturns ==
    \A c \in Cores : stack[c] # <<>> ~> Done(c)

\* C16: a call on a Local or Interrupt cell never waits; the critical
\* section of a Shared cell is always released again, and a call that has
\* entered it, or needs none, returns after its accessor. A call at the entry
\* of the section waits for the other core, also for sections that core
\* starts later: its return is not guaranteed
C16_ReturnsOnceEntered ==
    /\ []<>(cs_owner = NoCore)
    /\ \A c \in Cores : InWindow(c) ~> Done(c)
    /\ [](\A c \in Cores :
             Running(c) /\ kind[Top(c).cell] # "Shared"
                 => ENABLED <<Progress(c)>>_vars)

\* a core waits at the entry of the critical section while the other core,
\* which has been through the section before, is inside it again
C16_Witness ==
    /\ kind["X"] = "Shared"
    /\ \E c, d \in Cores :
          /\ c # d
          /\ cs_owner = {c}
          /\ fmt_out[c] # NoText
          /\ Running(d)
          /\ Top(d).pc = "entry"

\* C17 as claimed: the value of a cell is never exposed to two accessors at
\* once, also when an accessor calls scope again on the same cell
C17_Claimed_OneAccessorAtOnce ==
    \A x \in Cells : Cardinality(InAccessor(x)) <= 1

\* one core alone has called scope on a Shared cell twice, the second call
\* from inside the accessor of the first; both accessors have run and
\* returned, and the cell holds one update instead of two
C17_Witness ==
    /\ kind["X"] = "Shared"
    /\ Idle
    /\ \E c \in Cores : calls[c] = 2 /\ calls[1 - c] = 0
    /\ accCount["X"] = 2
    /\ value["X"] = Some(1)

\* a Local singleton: the lazy form of the Local tier
LocalSingleton(x) == kind[x] = "Local" /\ lazyc[x]

\* C18 as claimed: scope of a Local singleton admits by a bounds check: for
\* some declared maximum exactly the contexts whose identifier is below it
\* reach a slot, and those that are not below it abort
C18_Claimed_BoundsChecked ==
    LocalSingleton("X") =>
        \E max \in 0..Cardinality(Cores) :
            /\ \A a \in Admitted("X") : a[1] < max
            /\ \A c \in Cores : panic[c] = "thread" => c >= max

\* C18: a Local singleton has one slot, bound to the one identifier it is
\* declared with: scope admits the context whose identifier equals it, in
\* thread mode, and aborts in every other context, whether its identifier
\* is lower or higher; the one initializer runs at most once
C18_LocalSingletonOneSlot ==
    LocalSingleton("X") =>
        /\ \A a \in Admitted("X") :
              a[1] = thread_id["X"] /\ ~FrameInIrq(a)
        /\ \A c \in Cores :
              /\ panic[c] = "thread" => c # thread_id["X"]
              /\ c # thread_id["X"] /\ stack[c] # <<>> =>
                    ENABLED LocalScope(c) \/ panic[c] = "thread"
        /\ initCount["X"] <= 1
        /\ accCount["X"] <= Issued(thread_id["X"])

\* the singleton is bound to context 1: context 1 has run its accessor and
\* context 0, whose identifier is lower, has aborted
C18_Witness ==
    /\ LocalSingleton("X")
    /\ thread_id["X"] = 1
    /\ panic[0] = "thread"
    /\ accCount["X"] >= 1
    /\ initCount["X"] = 1

\* the access policy of the tier of x permits the context core c is in
Permitted(c, x) ==
    \/ kind[x] = "Shared"
    \/ /\ runtime_threadid(c) = thread_id[x]
       /\ kind[x] = "Local" => ~runtime_isinterrupted(c)

\* the value of x changes in a step of the initializer or of the accessor of
\* the activation on top of core c
ChangedBy(c, x) ==
    /\ Running(c)
    /\ Top(c).cell = x
    /\ Top(c).pc \in {"init", "write"}
    /\ stack'[c] # stack[c]

\* C19 as claimed: the value changes only as the effect of an initializer or
\* accessor run by a scope call that passed the access policy (the scope
\* call of Debug::fmt included); raw and the other public operations never
\* change it outside such a call
C19_Claimed_OnlyScopeMutates ==
    [][\A x \in Cells :
          value'[x] # value[x] =>
              \E c \in Cores :
                  ChangedBy(c, x) /\ Top(c).op # "raw" /\ Permitted(c, x)]_vars

\* C19: the value changes only inside an initializer or an accessor; the one
\* run by scope is always in a context the policy permits, the one run by
\* the unsafe raw is in any context, checked by nothing
C19_ScopeOrRawMutates ==
    /\ [](\A x \in Cells : \A a \in Admitted(x) :
             Permitted(a[1], x) /\ FrameOf(a).op # "raw")
    /\ [][\A x \in Cells :
             value'[x] # value[x] =>
                 \E c \in Cores :
                     /\ ChangedBy(c, x)
                     /\ Top(c).op = "raw" \/ Permitted(c, x)]_vars

\* the value of a Local cell has been changed although the context it is
\* bound to has called nothing, and nothing has aborted
C19_Witness ==
    /\ kind["X"] = "Local"
    /\ calls[thread_id["X"]] = 0
    /\ value["X"] = Some(1)
    /\ accCount["X"] = 1
    /\ \A c \in Cores : panic[c] = None

\* C20, as documented on InterruptCell::scope, InterruptCell::lazy_scope and
\* InterruptSingleton::scope: a call from another thread or from an
\* interrupt context panics, so none is ever admitted
C20_Claimed_PanicsInInterrupt ==
    kind["X"] = "Interrupt" =>
        \A a \in Admitted("X") : a[1] = thread_id["X"] /\ ~FrameInIrq(a)

\* every call on the Interrupt cell was made by interrupt handlers of the
\* bound core; all have run their accessor and returned, none has panicked
C20_Witness ==
    /\ kind["X"] = "Interrupt"
    /\ Idle
    /\ \A c \in Cores : calls[c] = 0 /\ panic[c] = None
    /\ irqs[thread_id["X"]] >= 1
    /\ accCount["X"] = irqs[thread_id["X"]]
    /\ result[thread_id["X"]] = value["X"]

\* the activation is inside the closure _runtime_interruptsafe runs, between
\* interrupt::disable() and the end of the function
Masked(f) ==
    /\ kind[f.cell] = "Interrupt"
    /\ f.op = "scope"
    /\ f.pc \in {"raw", "init", "as_mut", "write", "exit"}

\* core c is inside _runtime_interruptsafe below the activation at depth i
MaskedBelow(c, i) == \E j \in 1..(i - 1) : Masked(stack[c][j])

\* C21: _runtime_interruptsafe restores the interrupt-enable state it found:
\* interrupts are masked for as long as any call of it is inside its closure,
\* so from the outermost entry to the outermost exit, and when a call returns
\* they are enabled iff they were when it was called, that is iff the core is
\* not inside the closure of an outer call
C21_InterruptStateRestored ==
    /\ [](\A c \in Cores :
             /\ (\E i \in DOMAIN stack[c] : Masked(stack[c][i])) => ~primask[c]
             /\ stack[c] = <<>> /\ kind["X"] = "Interrupt" => primask[c])
    /\ [][\A c \in Cores :
             /\ stack[c] # <<>>
             /\ kind[Top(c).cell] = "Interrupt"
             /\ Len(stack'[c]) < Len(stack[c])
             => primask'[c] = ~MaskedBelow(c, Len(stack[c]))]_vars

\* a call nested inside the accessor of another has returned and the outer
\* accessor goes on with interrupts still masked, on a core that an interrupt
\* has preempted before
C21_Witness ==
    /\ kind["X"] = "Interrupt"
    /\ \E c \in Cores :
          /\ Len(stack[c]) = 1
          /\ stack[c][1].pc = "write"
          /\ accCount["Y"] >= 1
          /\ irqs[c] >= 1
          /\ ~primask[c]

\* the first thing the thread-mode code of core c does is to format x
FmtFirst(c, x) ==
    /\ calls[c] = 0
    /\ Fmt(c, x)

\* the thread-mode code of each core calls scope on, or formats, a cell built
\* in any of the ways of InitBind, and handlers of both cores call scope on it
NextBind ==
    \E c \in Cores :
        \/ CallFirst(c, "X")
        \/ FmtFirst(c, "X")
        \/ IrqThread(c, "X")
        \/ DebugFmt(c)
        \/ FmtValue(c)
        \/ Step(c)

SpecBind == InitBind /\ [][NextBind]_vars

\* the context the constructor call of x names: the core that ran new(value),
\* or the id handed to new_with_threadid
BoundAtConstruction(x) ==
    IF ctor[x].id = NoneV THEN ctor[x].by ELSE ctor[x].id[1]

\* C22: the bound context id of a Local or Interrupt cell is the one fixed by
\* its constructor (the constructing core for new, the given id for
\* new_with_threadid); no step of a scope call, of Debug::fmt or of a failed
\* access changes it, and no context other than that one is ever admitted:
\* its call aborts, also when it is the first access to the cell
C22_BoundIdFixedAtConstruction ==
    /\ [](kind["X"] # "Shared" =>
             /\ thread_id["X"] = BoundAtConstruction("X")
             /\ \A a \in Admitted("X") : a[1] = BoundAtConstruction("X")
             /\ \A c \in Cores :
                   c # BoundAtConstruction("X") => fmt_out[c].text # "value")
    /\ [][thread_id' = thread_id]_vars

\* the cell was built with new by one core; the other core made the first
\* access to it and was aborted, and later the constructing core was admitted
C22_Witness ==
    \E b \in Cores :
        /\ kind["X"] # "Shared"
        /\ ctor["X"] = [by |-> 1 - b, id |-> NoneV]
        /\ panic[b] = "thread"
        /\ Len(stack[b]) = 1
        /\ ~stack[b][1].isr
        /\ stack[b][1].op = "scope"
        /\ accCount["X"] = 1
        /\ calls[1 - b] = 1
        /\ irqs[1 - b] = 0
        /\ thread_id["X"] = 1 - b

\* the initializer slot of x is cleared and the value is not stored yet
HalfInitialized(x) == ~init[x] /\ value[x] = NoneV

\* C23: on a lazily initialized Interrupt-tier value used by the thread-mode
\* code and the handlers of its context the initializer runs exactly once:
\* while the slot is cleared and the value not yet stored interrupts are
\* masked and the initializing activation is the top of its core, no other
\* activation is past the masking of interrupts, none finds the cell without
\* a value, and every accessor that ran was preceded by the one initialization
C23_InterruptLazyInitOnce ==
    kind["X"] = "Interrupt" /\ lazyc["X"] =>
        /\ initCount["X"] <= 1
        /\ initCount["X"] = 1 <=> ~init["X"]
        /\ value["X"] # NoneV \/ accCount["X"] > 0 => initCount["X"] = 1
        /\ \A c \in Cores : panic[c] # "unreachable"
        /\ \A a \in InInit("X") : a[2] = Len(stack[a[1]]) /\ ~primask[a[1]]
        /\ HalfInitialized("X") =>
              /\ Cardinality(InInit("X")) = 1
              /\ \A a \in Admitted("X") \ InInit("X") :
                    FrameOf(a).pc \in {"mask", "disable"}

\* a handler preempted the thread-mode call between its read of PRIMASK and
\* interrupt::disable() and runs the initializer with interrupts masked
C23_Witness ==
    /\ kind["X"] = "Interrupt"
    /\ lazyc["X"]
    /\ \E c \in Cores :
          /\ Len(stack[c]) = 2
          /\ ~stack[c][1].isr
          /\ stack[c][1].pc = "disable"
          /\ stack[c][2].isr
          /\ stack[c][2].pc = "init"
          /\ HalfInitialized("X")
          /\ ~primask[c]

\* the panics of the assertions of scope
Violations == {"thread", "interrupt"}

\* the scope call on top of core c is aborted by an assertion in this step
Aborts(c) == panic[c] = None /\ panic'[c] \in Violations

\* C24: a scope call that violates the access policy is aborted at its
\* entry, before any window and before the value or the initializer is
\* read: the step that aborts it changes neither the value, the lazy state,
\* the bound id, the interrupt-enable state nor the critical section, the
\* aborted activation never got past its entry, and on a lazy cell the
\* contexts that are permitted still find the initializer and run it once
C24_AbortLeavesCellUntouched ==
    /\ [](\A c \in Cores :
             panic[c] \in Violations =>
                /\ Top(c).pc = "entry"
                /\ Top(c).tok = None
                /\ Top(c).fn
                /\ ~Permitted(c, Top(c).cell)
                /\ lazyc["X"] => /\ initCount["X"] <= 1
                                 /\ initCount["X"] = 0 <=> init["X"]
                                 /\ accCount["X"] > 0 => initCount["X"] = 1)
    /\ [][\A c \in Cores :
             Aborts(c) =>
                /\ Top(c).pc = "entry"
                /\ UNCHANGED <<value, init, thread_id, primask, cs_owner,
                               stack, initCount, accCount, result>>]_vars

\* a scope call on a lazy cell from another core was aborted, the
\* initializer was left in its slot, and the one call of the bound core has
\* run it and its accessor
C24_Witness ==
    /\ lazyc["X"]
    /\ \E c \in Cores :
          /\ panic[c] = "thread"
          /\ Len(stack[c]) = 1
          /\ calls[1 - c] = 1
          /\ irqs[1 - c] = 0
          /\ stack[1 - c] = <<>>
          /\ result[1 - c] = Some(1)
          /\ initCount["X"] = 1
          /\ primask[c]

\* the accessor of the activation of core c calls scope on another cell
NestInAccessor(c, x) ==
    /\ NestOther(c, x)
    /\ Top(c).pc = "write"

\* core 0 calls scope on X and, inside its accessor, scope on Y; core 1
\* calls scope on Y and, inside its accessor, scope on X
NextOpposite ==
    \/ CallFirst(0, "X")
    \/ NestInAccessor(0, "Y")
    \/ CallFirst(1, "Y")
    \/ NestInAccessor(1, "X")
    \/ \E c \in Cores : Step(c)

\* each core keeps executing the call it is in
SpecOpposite ==
    /\ Init
    /\ [][NextOpposite]_vars
    /\ \A c \in Cores : WF_vars(Step(c))

\* C25: scope calls nested in opposite orders on two Shared cells do not
\* deadlock: each core that is in a scope call, nested or not, waiting for
\* the critical section or inside it, eventually has returned from all of
\* its calls
C25_OppositeNestingCompletes ==
    \A c \in Cores :
        (kind["X"] = "Shared" /\ stack[c] # <<>>) ~> (stack[c] = <<>>)

\* core 0 has returned from its scope on X with the scope on Y nested in it,
\* and core 1 is inside the accessor of X nested in its accessor of Y
C25_Witness ==
    /\ kind["X"] = "Shared"
    /\ stack[0] = <<>>
    /\ calls[0] = 2
    /\ Len(stack[1]) = 2
    /\ stack[1][1].cell = "Y"
    /\ stack[1][1].pc = "write"
    /\ stack[1][2].cell = "X"
    /\ stack[1][2].pc = "write"

\* the singletons: every cell holds a LazyCell that is not initialized yet
InitLazy ==
    /\ Init
    /\ lazyc["X"]

\* the first interrupt of core c preempts its thread-mode code and the
\* handler formats x with {:?}
IrqFmtFirst(c, x) ==
    /\ irqs[c] = 0
    /\ IrqFmt(c, x)

\* thread-mode code that calls scope on a singleton and formats it, in any
\* order, and a handler per core that formats it
NextLazyFmt ==
    \E c \in Cores :
        \/ Call(c, "X")
        \/ Fmt(c, "X")
        \/ IrqFmtFirst(c, "X")
        \/ DebugFmt(c)
        \/ FmtValue(c)
        \/ Step(c)

SpecLazyFmt == InitLazy /\ [][NextLazyFmt]_vars

\* core c is in Debug::fmt of x, at the checks of fmt
AtFmt(c, x) ==
    /\ Running(c)
    /\ Top(c).cell = x
    /\ Top(c).op = "fmt"
    /\ Top(c).pc = "fmt"

\* core c is in Debug::fmt of x and has reached LazyCell::scope
FmtAtLazy(c, x) ==
    /\ Running(c)
    /\ Top(c).cell = x
    /\ Top(c).op = "fmt"
    /\ Top(c).pc = "raw"

\* the activation on top of core c takes a step; no handler preempts it
StepsOn(c) ==
    /\ stack'[c] # stack[c]
    /\ Len(stack'[c]) <= Len(stack[c])

\* C26: Debug::fmt of a singleton is an access like scope: from a permitted
\* context it goes through scope and, when the initializer is still in its
\* slot, runs it (once: the count never exceeds one, whatever scope calls
\* and formattings follow, and a value that was formatted is one the
\* initializer produced); from a context that is not permitted it writes
\* the opaque description, returns and leaves the initializer, the value and
\* the count as they are
C26_DebugInitializesLazily ==
    /\ [](/\ initCount["X"] <= 1
          /\ initCount["X"] = 1 <=> ~init["X"]
          /\ \A c \in Cores :
                /\ fmt_out[c].text = "value" =>
                      /\ initCount["X"] = 1
                      /\ kind["X"] = "Shared" \/ runtime_threadid(c) = thread_id["X"]
                /\ panic[c] # None => Top(c).op # "fmt")
    /\ [][\A c \in Cores :
             /\ AtFmt(c, "X") /\ StepsOn(c) =>
                   IF Permitted(c, "X")
                   THEN /\ Len(stack'[c]) = Len(stack[c])
                        /\ stack'[c][Len(stack[c])].pc = "entry"
                        /\ fmt_out'[c] = fmt_out[c]
                   ELSE /\ Len(stack'[c]) = Len(stack[c]) - 1
                        /\ fmt_out'[c].text \notin {None, "value"}
                        /\ fmt_out'[c].val = NoneV
                        /\ UNCHANGED <<init, value, initCount>>
             /\ FmtAtLazy(c, "X") /\ init["X"] /\ StepsOn(c) =>
                   /\ ~init'["X"]
                   /\ initCount'["X"] = 1
                   /\ stack'[c][Len(stack[c])].pc = "init"]_vars

\* the thread-mode code of a core formatted the singleton before anything
\* else accessed it, which ran the initializer, and its scope call that
\* follows has found the value without running the initializer again
C26_Witness ==
    \E c \in Cores :
        /\ fmt_out[c] = Live(Some(0))
        /\ calls[c] = 2
        /\ calls[1 - c] = 0
        /\ irqs = [d \in Cores |-> 0]
        /\ Len(stack[c]) = 1
        /\ stack[c][1].op = "scope"
        /\ stack[c][1].pc = "write"
        /\ initCount["X"] = 1
        /\ accCount["X"] = 0
====
